---- MODULE Spec2Model ----
(***************************************************************************)
(* Model of .scraper/datfile.py: the header-name reader of datfiles.       *)
(*                                                                         *)
(*  - _parse_clrmamepro : the generator turning the text of a clrmamepro   *)
(*    file into ("open", name) / ("close",) / ("value", name, value)       *)
(*    events, one per loop iteration;                                      *)
(*  - read_header_name_cmp : the consumer keeping a scope stack;           *)
(*  - read_header_name_xml : the consumer of ET.iterparse start/end events;*)
(*  - read_canonical_name : the wrapper turning None into ValueError.      *)
(*                                                                         *)
(* A text is a sequence of one-character strings.  Python's None is the    *)
(* record None below; a returned str s is Some(s).                         *)
(***************************************************************************)
EXTENDS Naturals, Integers, Sequences, FiniteSets, TLC

VARIABLES
    fmt,      \* DatfileFormat given to read_canonical_name: "cmp" or "xml"
    pieces,   \* cmp: the pieces the file text was put together from
    text,     \* cmp: local `text` of _parse_clrmamepro, the unread remainder
    events,   \* events the consumer has received so far, in order
    stream,   \* xml: events ET.iterparse has not delivered yet
    streamErr,\* xml: whether iterparse raises ParseError once `stream` is used up
    scope,    \* local `scope` of read_header_name_cmp / read_header_name_xml
    pc,       \* "gen" | "stopped" | "failed" (generator alone);
              \* "loop" | "returned" | "done" (read_canonical_name)
    ret,      \* return value of the read_header_name_* variant (None or Some)
    outcome   \* how read_canonical_name ended: "pending" | "ok" | an exception

vars == <<fmt, pieces, text, events, stream, streamErr, scope, pc, ret, outcome>>

----------------------------------------------------------------------------
(* Bounds of the model.                                                    *)
MaxPieces == 4
MaxEvents == 5

----------------------------------------------------------------------------
(* Python values.                                                          *)
None == [some |-> FALSE, val |-> <<>>]
Some(v) == [some |-> TRUE, val |-> v]

(* string literals of the source, as character sequences                   *)
NAME == <<"n", "a", "m", "e">>
CLRMAMEPRO == <<"c", "l", "r", "m", "a", "m", "e", "p", "r", "o">>
GAME == <<"g", "a", "m", "e">>

(* the characters of the model's files                                     *)
Alphabet ==
    {"a", "c", "e", "g", "l", "m", "n", "o", "p", "r", "x", "y",
     " ", "\t", "\n", "\r", "(", ")", "\""}

(* str.isspace, on these characters                                        *)
IsSpace(char) == char \in {" ", "\t", "\n", "\r"}

(* the predicates handed to _take_until and _skip_while (_StrPredicate),   *)
(* as functions of the character                                           *)
isspace == [char \in Alphabet |-> IsSpace(char)]
isquote == [char \in Alphabet |-> char = "\""]

(* _find: index (1-based) of the first character satisfying predicate;     *)
(* 0 stands for None                                                       *)
Find(t, predicate) ==
    IF \E i \in 1..Len(t) : predicate[t[i]]
    THEN CHOOSE i \in 1..Len(t) :
             predicate[t[i]] /\ \A j \in 1..(i - 1) : ~predicate[t[j]]
    ELSE 0

(* _take_until: <<text[:end], text[end:]>>, or <<text, "">> when not found *)
TakeUntil(t, predicate) ==
    LET end == Find(t, predicate)
    IN  IF end = 0
        THEN <<t, <<>>>>
        ELSE <<SubSeq(t, 1, end - 1), SubSeq(t, end, Len(t))>>

(* _skip_while                                                             *)
SkipWhile(t, predicate) ==
    TakeUntil(t, [char \in Alphabet |-> ~predicate[char]])[2]

(* the slice text[1:], which is "" on the empty string                     *)
Slice1(t) == IF t = <<>> THEN <<>> ELSE Tail(t)

(* a name read that takes ")" for the end of the token                     *)
TakeNameToParen(t) ==
    TakeUntil(t, [char \in Alphabet |-> IsSpace(char) \/ char = ")"])

(* the bare-token reads of lines 95 and 113                                *)
TakeName(t) == TakeUntil(t, isspace)
TakeUnquoted(t) == TakeUntil(t, isspace)

(* a quoted read that ends at the first whitespace                         *)
TakeQuotedToSpace(t) ==
    LET vt == TakeUntil(Slice1(t), isspace)
    IN  <<vt[1], Slice1(vt[2])>>

(* the quoted-value read of lines 106-108: t starts at the opening quote   *)
TakeQuoted(t) ==
    LET vt == TakeUntil(Slice1(t), isquote)
    IN  <<vt[1], Slice1(vt[2])>>

(* events                                                                  *)
CloseEvent == [kind |-> "close", name |-> <<>>, value |-> <<>>]
OpenEvent(n) == [kind |-> "open", name |-> n, value |-> <<>>]
ValueEvent(n, v) == [kind |-> "value", name |-> n, value |-> v]

(* What an iteration of the while loop of _parse_clrmamepro comes to:     *)
(* kind is "stop" (the break of line 86), "IndexError" (text[0] of line 99 *)
(* on the empty string) or the kind of the event yielded; event is that    *)
(* event, rest the text the generator keeps.                               *)
Stopped(t) == [kind |-> "stop", event |-> CloseEvent, rest |-> t]
Raised(t) == [kind |-> "IndexError", event |-> CloseEvent, rest |-> t]
Yielded(ev, t) == [kind |-> ev.kind, event |-> ev, rest |-> t]

(* a close that leaves the ")" in the text                                 *)
CloseStepKeepsText(t1) == Yielded(CloseEvent, t1)

(* lines 89-92: t1 starts with ")"                                         *)
CloseStep(t1) == Yielded(CloseEvent, Slice1(t1))

(* lines 99-114: name is read, t2 is the non-empty text after the          *)
(* whitespace that followed it                                             *)
YieldAfterName(name, t2) ==
    IF t2[1] = "("
    THEN Yielded(OpenEvent(name), Slice1(t2))
    ELSE IF t2[1] = "\""
    THEN LET q == TakeQuoted(t2)
         IN  Yielded(ValueEvent(name, q[1]), q[2])
    ELSE LET u == TakeUnquoted(t2)
         IN  Yielded(ValueEvent(name, u[1]), u[2])

(* a key at the end of the text read as a pair with an empty value         *)
AfterNameEmptyValue(name, t2) ==
    IF t2 = <<>>
    THEN Yielded(ValueEvent(name, <<>>), t2)
    ELSE YieldAfterName(name, t2)

(* line 99 evaluates text[0] first: IndexError when nothing is left        *)
AfterName(name, t2) ==
    IF t2 = <<>>
    THEN Raised(t2)
    ELSE YieldAfterName(name, t2)

(* one iteration, lines 83-114, on the remaining text t                    *)
ParseStep(t) ==
    LET t1 == SkipWhile(t, isspace)
    IN  IF t1 = <<>>
        THEN Stopped(t1)
        ELSE IF t1[1] = ")"
        THEN CloseStep(t1)
        ELSE LET nt == TakeName(t1)
             IN  AfterName(nt[1], SkipWhile(nt[2], isspace))

----------------------------------------------------------------------------
(* The files the model reads: texts put together from at most MaxPieces    *)
(* pieces.                                                                 *)
PieceIds == {"clr", "game", "name", "nameY", "x", "close",
             "qxy", "qempty", "qopen", "xclose"}

PieceText(p) ==
    CASE p = "clr"    -> CLRMAMEPRO \o <<" ", "(", "\n", "\t">>
      [] p = "game"   -> GAME \o <<" ", "(", " ">>
      [] p = "name"   -> NAME \o <<" ">>
      [] p = "nameY"  -> NAME \o <<" ", "y", "\n">>
      [] p = "x"      -> <<"x", " ">>
      [] p = "close"  -> <<")", " ">>
      [] p = "qxy"    -> <<"\"", "x", " ", "y", "\"", "\n">>
      [] p = "qempty" -> <<"\"", "\"", " ">>
      [] p = "qopen"  -> <<"\"", "x">>
      [] p = "xclose" -> <<"x", ")">>

RECURSIVE Flatten(_)
Flatten(ps) == IF ps = <<>> THEN <<>> ELSE PieceText(Head(ps)) \o Flatten(Tail(ps))

Files == UNION {[1..n -> PieceIds] : n \in 0..MaxPieces}

(* path.read_text()                                                        *)
ReadText(ps) == Flatten(ps)

----------------------------------------------------------------------------
(* The markup side.  ET.iterparse is the standard library's: the model     *)
(* takes what it delivers as given: a sequence of ("start", elem) and      *)
(* ("end", elem) events in document order, each end closing the innermost  *)
(* open element, and, when the document is not a complete one (or breaks   *)
(* off at a syntax error), a ParseError in place of the next event.        *)
(* elem.text is None for an element without text.                          *)
Tags == {"datafile", "header", "name", "game"}
Texts == {None, Some(<<"X">>), Some(<<"Y">>)}

StartEvent(tag) == [kind |-> "start", tag |-> tag, text |-> None]
EndEvent(tag, txt) == [kind |-> "end", tag |-> tag, text |-> txt]

XmlEvents ==
    {StartEvent(tag) : tag \in Tags}
        \cup {EndEvent(tag, txt) : tag \in Tags, txt \in Texts}

(* the elements open after the events evs, outermost first                 *)
RECURSIVE OpenElements(_)
OpenElements(evs) ==
    IF evs = <<>>
    THEN <<>>
    ELSE LET before == OpenElements(SubSeq(evs, 1, Len(evs) - 1))
             last == evs[Len(evs)]
         IN  IF last.kind = "start"
             THEN Append(before, last.tag)
             ELSE SubSeq(before, 1, Len(before) - 1)

(* a document has one root element: nothing starts after it has ended; an  *)
(* end event closes the innermost open element                             *)
CanFollow(evs, ev) ==
    LET open == OpenElements(evs)
    IN  IF ev.kind = "start"
        THEN evs = <<>> \/ open # <<>>
        ELSE open # <<>> /\ open[Len(open)] = ev.tag

(* the event sequences of exactly n events                                 *)
RECURSIVE Docs(_)
Docs(n) ==
    IF n = 0
    THEN {<<>>}
    ELSE {Append(p[1], p[2]) :
            p \in {q \in Docs(n - 1) \X XmlEvents : CanFollow(q[1], q[2])}}

(* the iteration ends without ParseError only after a complete document    *)
Complete(evs) == evs # <<>> /\ OpenElements(evs) = <<>>

----------------------------------------------------------------------------
(* list.pop() / list.append on the scope stack                             *)
Pop(sc) == SubSeq(sc, 1, Len(sc) - 1)

(* a test of the key alone                                                 *)
CmpIsTargetAnyScope(name, sc) == name = NAME

(* the test of line 66                                                     *)
CmpIsTarget(name, sc) == name = NAME /\ sc = <<CLRMAMEPRO>>

(* a test of the tag alone                                                 *)
XmlIsTargetAnyPath(event, tag, sc) == event = "end" /\ tag = "name"

(* the test of lines 40-44, on the scope after the pop                     *)
XmlIsTarget(event, tag, sc) ==
    event = "end" /\ tag = "name" /\ sc = <<"datafile", "header">>

----------------------------------------------------------------------------
(* Initial states.                                                         *)
InitCommon ==
    /\ events = <<>>
    /\ scope = <<>>
    /\ ret = None
    /\ outcome = "pending"

(* read_canonical_name(path, "cmp") on a file of Files                     *)
InitCmp ==
    /\ InitCommon
    /\ fmt = "cmp"
    /\ pieces \in Files
    /\ text = ReadText(pieces)
    /\ stream = <<>>
    /\ streamErr = FALSE
    /\ pc = "loop"

(* _parse_clrmamepro(path) alone, every event of it taken                  *)
InitGen ==
    /\ InitCommon
    /\ fmt = "cmp"
    /\ pieces \in Files
    /\ text = ReadText(pieces)
    /\ stream = <<>>
    /\ streamErr = FALSE
    /\ pc = "gen"

(* read_canonical_name(path, "xml") on a file of Streams                   *)
InitXml ==
    /\ InitCommon
    /\ fmt = "xml"
    /\ pieces = <<>>
    /\ text = <<>>
    /\ \E n \in 0..MaxEvents : stream \in Docs(n)
    /\ streamErr \in {e \in BOOLEAN : e \/ Complete(stream)}
    /\ pc = "loop"

----------------------------------------------------------------------------
(* The generator _parse_clrmamepro, one action per way an iteration of     *)
(* its loop ends.                                                          *)
GenStop ==
    LET step == ParseStep(text)
    IN
        /\ pc = "gen"
        /\ step.kind = "stop"
        /\ text' = step.rest
        /\ pc' = "stopped"
        /\ UNCHANGED <<fmt, pieces, events, stream, streamErr, scope, ret, outcome>>

GenClose ==
    LET step == ParseStep(text)
    IN
        /\ pc = "gen"
        /\ step.kind = "close"
        /\ text' = step.rest
        /\ events' = Append(events, step.event)
        /\ UNCHANGED <<fmt, pieces, stream, streamErr, scope, pc, ret, outcome>>

GenOpen ==
    LET step == ParseStep(text)
    IN
        /\ pc = "gen"
        /\ step.kind = "open"
        /\ text' = step.rest
        /\ events' = Append(events, step.event)
        /\ UNCHANGED <<fmt, pieces, stream, streamErr, scope, pc, ret, outcome>>

GenValue ==
    LET step == ParseStep(text)
    IN
        /\ pc = "gen"
        /\ step.kind = "value"
        /\ text' = step.rest
        /\ events' = Append(events, step.event)
        /\ UNCHANGED <<fmt, pieces, stream, streamErr, scope, pc, ret, outcome>>

GenIndexError ==
    LET step == ParseStep(text)
    IN
        /\ pc = "gen"
        /\ step.kind = "IndexError"
        /\ text' = step.rest
        /\ pc' = "failed"
        /\ outcome' = "IndexError"
        /\ UNCHANGED <<fmt, pieces, events, stream, streamErr, scope, ret>>

----------------------------------------------------------------------------
(* read_header_name_cmp: one action per iteration of its for loop, the     *)
(* generator's iteration producing the event included.                     *)
CmpOpen ==
    LET step == ParseStep(text)
    IN
        /\ pc = "loop" /\ fmt = "cmp"
        /\ step.kind = "open"
        /\ text' = step.rest
        /\ events' = Append(events, step.event)
        /\ scope' = Append(scope, step.event.name)
        /\ UNCHANGED <<fmt, pieces, stream, streamErr, pc, ret, outcome>>

(* a close that pops only when a record is open                            *)
CmpCloseIfOpen ==
    LET step == ParseStep(text)
    IN
        /\ pc = "loop" /\ fmt = "cmp"
        /\ step.kind = "close"
        /\ text' = step.rest
        /\ events' = Append(events, step.event)
        /\ scope' = IF scope = <<>> THEN scope ELSE Pop(scope)
        /\ UNCHANGED <<fmt, pieces, stream, streamErr, pc, ret, outcome>>

(* scope.pop() raises IndexError on an empty list; nothing catches it      *)
CmpClose ==
    LET step == ParseStep(text)
    IN
        /\ pc = "loop" /\ fmt = "cmp"
        /\ step.kind = "close"
        /\ text' = step.rest
        /\ events' = Append(events, step.event)
        /\ IF scope = <<>>
           THEN /\ pc' = "done"
                /\ outcome' = "IndexError"
                /\ UNCHANGED scope
           ELSE /\ scope' = Pop(scope)
                /\ UNCHANGED <<pc, outcome>>
        /\ UNCHANGED <<fmt, pieces, stream, streamErr, ret>>

(* a match that is kept while the loop goes on                             *)
CmpValueKeepsIterating ==
    LET step == ParseStep(text)
    IN
        /\ pc = "loop" /\ fmt = "cmp"
        /\ step.kind = "value"
        /\ text' = step.rest
        /\ events' = Append(events, step.event)
        /\ IF CmpIsTarget(step.event.name, scope)
           THEN ret' = Some(step.event.value)
           ELSE UNCHANGED ret
        /\ UNCHANGED <<fmt, pieces, stream, streamErr, scope, pc, outcome>>

CmpValue ==
    LET step == ParseStep(text)
    IN
        /\ pc = "loop" /\ fmt = "cmp"
        /\ step.kind = "value"
        /\ text' = step.rest
        /\ events' = Append(events, step.event)
        /\ IF CmpIsTarget(step.event.name, scope)
           THEN /\ ret' = Some(step.event.value)
                /\ pc' = "returned"
           ELSE UNCHANGED <<ret, pc>>
        /\ UNCHANGED <<fmt, pieces, stream, streamErr, scope, outcome>>

(* the generator is exhausted: line 69                                     *)
CmpExhausted ==
    LET step == ParseStep(text)
    IN
        /\ pc = "loop" /\ fmt = "cmp"
        /\ step.kind = "stop"
        /\ text' = step.rest
        /\ ret' = None
        /\ pc' = "returned"
        /\ UNCHANGED <<fmt, pieces, events, stream, streamErr, scope, outcome>>

(* the generator raises IndexError at line 99; nothing catches it          *)
CmpIndexError ==
    LET step == ParseStep(text)
    IN
        /\ pc = "loop" /\ fmt = "cmp"
        /\ step.kind = "IndexError"
        /\ text' = step.rest
        /\ pc' = "done"
        /\ outcome' = "IndexError"
        /\ UNCHANGED <<fmt, pieces, events, stream, streamErr, scope, ret>>

----------------------------------------------------------------------------
(* read_header_name_xml: one action per iteration of its for loop.         *)
XmlStart ==
    /\ pc = "loop" /\ fmt = "xml"
    /\ stream # <<>>
    /\ Head(stream).kind = "start"
    /\ stream' = Tail(stream)
    /\ events' = Append(events, Head(stream))
    /\ scope' = Append(scope, Head(stream).tag)
    /\ UNCHANGED <<fmt, pieces, text, streamErr, pc, ret, outcome>>

XmlEnd ==
    /\ pc = "loop" /\ fmt = "xml"
    /\ stream # <<>>
    /\ Head(stream).kind = "end"
    /\ stream' = Tail(stream)
    /\ events' = Append(events, Head(stream))
    /\ scope' = Pop(scope)
    /\ IF XmlIsTarget(Head(stream).kind, Head(stream).tag, Pop(scope))
       THEN /\ ret' = Head(stream).text
            /\ pc' = "returned"
       ELSE UNCHANGED <<ret, pc>>
    /\ UNCHANGED <<fmt, pieces, text, streamErr, outcome>>

(* the iteration ends: line 47                                             *)
XmlExhausted ==
    /\ pc = "loop" /\ fmt = "xml"
    /\ stream = <<>> /\ ~streamErr
    /\ ret' = None
    /\ pc' = "returned"
    /\ UNCHANGED <<fmt, pieces, text, events, stream, streamErr, scope, outcome>>

(* iterparse raises ParseError; the finally clause closes the parser and   *)
(* the exception goes on to the caller                                     *)
XmlParseError ==
    /\ pc = "loop" /\ fmt = "xml"
    /\ stream = <<>> /\ streamErr
    /\ pc' = "done"
    /\ outcome' = "ParseError"
    /\ UNCHANGED <<fmt, pieces, text, events, stream, streamErr, scope, ret>>

----------------------------------------------------------------------------
(* read_canonical_name, lines 21-25.                                       *)
(* None passed on as the empty name                                        *)
ReturnEmptyName ==
    /\ pc = "returned"
    /\ ret = None
    /\ pc' = "done"
    /\ outcome' = "ok"
    /\ ret' = Some(<<>>)
    /\ UNCHANGED <<fmt, pieces, text, events, stream, streamErr, scope>>

RaiseMissing ==
    /\ pc = "returned"
    /\ ret = None
    /\ pc' = "done"
    /\ outcome' = "ValueError"
    /\ UNCHANGED <<fmt, pieces, text, events, stream, streamErr, scope, ret>>

ReturnName ==
    /\ pc = "returned"
    /\ ret # None
    /\ pc' = "done"
    /\ outcome' = "ok"
    /\ UNCHANGED <<fmt, pieces, text, events, stream, streamErr, scope, ret>>

----------------------------------------------------------------------------
NextGen == GenStop \/ GenClose \/ GenOpen \/ GenValue \/ GenIndexError

NextCmp ==
    \/ CmpOpen \/ CmpClose \/ CmpValue \/ CmpExhausted \/ CmpIndexError
    \/ RaiseMissing \/ ReturnName

NextXml ==
    \/ XmlStart \/ XmlEnd \/ XmlExhausted \/ XmlParseError
    \/ RaiseMissing \/ ReturnName

Init == InitCmp \/ InitXml

Next ==
    \/ CmpOpen \/ CmpClose \/ CmpValue \/ CmpExhausted \/ CmpIndexError
    \/ XmlStart \/ XmlEnd \/ XmlExhausted \/ XmlParseError
    \/ RaiseMissing \/ ReturnName

(* Spec: read_canonical_name on either format; SpecCmp and SpecXml: one    *)
(* format; SpecGen: the generator _parse_clrmamepro with every event taken *)
Spec == Init /\ [][Next]_vars
SpecGen == InitGen /\ [][NextGen]_vars
SpecCmp == InitCmp /\ [][NextCmp]_vars
SpecXml == InitXml /\ [][NextXml]_vars

----------------------------------------------------------------------------
(* What the claims say of a file is read off the pieces it was put         *)
(* together from, not off the parser: a header piece opens a record, the   *)
(* close piece ends one, a key piece with a value piece after it is a      *)
(* pair.                                                                   *)
HeaderPieces == {"clr", "game"}
KeyPieces == {"name", "x"}
ValuePieces == {"x", "qxy", "qempty"}

RecordName(p) == IF p = "clr" THEN CLRMAMEPRO ELSE GAME
ValueOf(p) ==
    CASE p = "x"      -> <<"x">>
      [] p = "qxy"    -> <<"x", " ", "y">>
      [] p = "qempty" -> <<>>

Verdict(st, open, val) == [status |-> st, open |-> open, value |-> val]

(* Reading the pieces ps inside the records `open`, up to the first pair   *)
(* `name` directly inside a top-level clrmamepro record ("found", with its *)
(* value), the first thing that is not well formed, or the end.            *)
RECURSIVE Scan(_, _)
Scan(ps, open) ==
    IF ps = <<>>
    THEN Verdict("end", open, <<>>)
    ELSE LET p == Head(ps)
         IN  IF p \in HeaderPieces
             THEN Scan(Tail(ps), Append(open, RecordName(p)))
             ELSE IF p = "close"
             THEN IF open = <<>>
                  THEN Verdict("unmatched close", open, <<>>)
                  ELSE Scan(Tail(ps), SubSeq(open, 1, Len(open) - 1))
             ELSE IF p = "nameY"
             THEN IF open = <<CLRMAMEPRO>>
                  THEN Verdict("found", open, <<"y">>)
                  ELSE Scan(Tail(ps), open)
             ELSE IF p \in KeyPieces
             THEN IF Len(ps) = 1
                  THEN Verdict("key without value", open, <<>>)
                  ELSE IF ps[2] \in ValuePieces
                  THEN IF p = "name" /\ open = <<CLRMAMEPRO>>
                       THEN Verdict("found", open, ValueOf(ps[2]))
                       ELSE Scan(SubSeq(ps, 3, Len(ps)), open)
                  ELSE IF ps[2] = "qopen" /\ Len(ps) = 2
                  THEN Verdict("unterminated quote", open, <<>>)
                  ELSE Verdict("other", open, <<>>)
             ELSE Verdict("other", open, <<>>)

FileVerdict == Scan(pieces, <<>>)

(* the markup events of the whole file, delivered or not                   *)
AllEvents == events \o stream

(* event i of evs is the end of a `name` element directly inside           *)
(* /datafile/header                                                        *)
EndsHeaderName(evs, i) ==
    /\ evs[i].kind = "end"
    /\ evs[i].tag = "name"
    /\ OpenElements(SubSeq(evs, 1, i)) = <<"datafile", "header">>

(* t without its leading whitespace; the run of non-whitespace characters *)
(* t starts with; whether t is whitespace only                             *)
RECURSIVE LStrip(_)
LStrip(t) == IF t # <<>> /\ IsSpace(Head(t)) THEN LStrip(Tail(t)) ELSE t

RECURSIVE NonSpaceRun(_)
NonSpaceRun(t) ==
    IF t = <<>> \/ IsSpace(Head(t)) THEN <<>> ELSE <<Head(t)>> \o NonSpaceRun(Tail(t))

AllSpace(t) == \A i \in 1..Len(t) : IsSpace(t[i])

----------------------------------------------------------------------------
(* C1: a file whose top-level clrmamepro record directly holds a pair      *)
(* name "X" or name X makes read_canonical_name(path, "cmp") return        *)
(* exactly X: a quoted value whole, blanks included, an unquoted one up to *)
(* the next whitespace, and "" for name "".                                *)
C1_ReturnsHeaderName ==
    (fmt = "cmp" /\ FileVerdict.status = "found")
        => /\ pc = "returned" => ret = Some(FileVerdict.value)
           /\ pc = "done" => (outcome = "ok" /\ ret = Some(FileVerdict.value))

C1_Witness ==
    /\ pc = "done" /\ outcome = "ok"
    /\ FileVerdict.status = "found"
    /\ ret = Some(<<"x", " ", "y">>)

CmpValidWithoutName ==
    fmt = "cmp" /\ FileVerdict.status = "end" /\ FileVerdict.open = <<>>

XmlValidWithoutName ==
    /\ fmt = "xml" /\ ~streamErr /\ Complete(AllEvents)
    /\ \A i \in 1..Len(AllEvents) : ~EndsHeaderName(AllEvents, i)

(* C3: a structurally valid file of either format without a name field at  *)
(* the target path ends read_canonical_name in the ValueError of line 23:  *)
(* no other exception, no string.                                          *)
C3_AbsentIsValueError ==
    (CmpValidWithoutName \/ XmlValidWithoutName)
        => /\ pc = "returned" => ret = None
           /\ pc = "done" => outcome = "ValueError"

C3_Witness ==
    /\ pc = "done" /\ outcome = "ValueError"
    /\ CmpValidWithoutName
    /\ \E i \in 1..Len(events) : events[i] = ValueEvent(NAME, <<"x">>)

(* C6: a file ending in an unterminated quoted value ends in a             *)
(* malformed-input failure: no value is returned for it and it is not      *)
(* reported as a missing name.                                             *)
C6_UnterminatedQuoteFails ==
    (fmt = "cmp" /\ FileVerdict.status = "unterminated quote" /\ pc = "done")
        => outcome \notin {"ok", "ValueError"}

(* all that is left of t is one token, not starting with ")", and          *)
(* whitespace around it                                                    *)
KeyThenEnd(t) ==
    LET rest == LStrip(t)
    IN  /\ rest # <<>>
        /\ Head(rest) # ")"
        /\ AllSpace(SubSeq(rest, Len(NonSpaceRun(rest)) + 1, Len(rest)))

(* C10: when all that is left of the text is a key (after optional         *)
(* whitespace) followed by nothing but whitespace, the call ends there in  *)
(* a failure that is neither a returned name nor the missing-name          *)
(* ValueError, and no event is yielded for that key.                       *)
C10_KeyWithoutValueFails ==
    [][(pc = "loop" /\ fmt = "cmp" /\ KeyThenEnd(text))
          => /\ pc' = "done"
             /\ outcome' = "IndexError"
             /\ events' = events
             /\ ret' = None]_vars

C10_Witness ==
    /\ pc = "done" /\ outcome = "IndexError"
    /\ FileVerdict.status = "key without value"
    /\ Len(pieces) > 1
    /\ pieces[Len(pieces)] = "name"
    /\ scope = <<CLRMAMEPRO>>

(* C2: read_header_name_xml returns the text of a name element exactly     *)
(* when its end event leaves the scope ["datafile", "header"]; a name      *)
(* element ending anywhere else is passed over.                            *)
C2_ReturnsAtHeaderNameOnly ==
    fmt = "xml" =>
        /\ scope = OpenElements(events)
        /\ \A i \in 1..Len(events) :
              EndsHeaderName(events, i)
                  => /\ i = Len(events)
                     /\ pc \in {"returned", "done"}
                     /\ ret = events[i].text
        /\ (pc = "returned" \/ (pc = "done" /\ outcome # "ParseError"))
              => \/ events # <<>> /\ EndsHeaderName(events, Len(events))
                 \/ stream = <<>> /\ ~streamErr /\ ret = None

C2_Witness ==
    /\ fmt = "xml" /\ pc = "done" /\ outcome = "ok"
    /\ EndsHeaderName(events, Len(events))
    /\ ret = Some(<<"X">>)
    /\ stream # <<>>

(* events of a kind, and opens minus closes, among evs                     *)
CountKind(evs, kind) == Cardinality({i \in 1..Len(evs) : evs[i].kind = kind})
Depth(evs) == CountKind(evs, "open") - CountKind(evs, "close")

(* C4: a close event received while no record is open ends the call in a   *)
(* failure other than the missing-name ValueError; otherwise the scope     *)
(* stack is as deep as the records opened and not yet closed.              *)
C4_CloseOnEmptyScopeFails ==
    fmt = "cmp" =>
        IF Depth(events) < 0
        THEN pc = "done" /\ outcome \notin {"ok", "ValueError", "pending"}
        ELSE Len(scope) = Depth(events)

C4_Witness ==
    /\ fmt = "cmp" /\ pc = "done" /\ outcome = "IndexError"
    /\ Depth(events) < 0
    /\ Len(events) = 3

(* the text read so far, and where the unread text starts                  *)
EndsWith(t, tail) ==
    Len(tail) <= Len(t) /\ SubSeq(t, Len(t) - Len(tail) + 1, Len(t)) = tail

Consumed ==
    SubSeq(ReadText(pieces), 1, Len(ReadText(pieces)) - Len(text))

CursorAtValueEnd ==
    IF fmt = "cmp"
    THEN /\ ReadText(pieces) = Consumed \o text
         /\ \/ EndsWith(Consumed, <<"\"">> \o ret.val \o <<"\"">>)
            \/ EndsWith(Consumed, <<"\"">> \o ret.val) /\ text = <<>>
            \/ /\ ret.val # <<>>
               /\ \E sp \in {" ", "\t", "\n", "\r"} :
                     EndsWith(Consumed, <<sp>> \o ret.val)
               /\ (text = <<>> \/ IsSpace(text[1]))
    ELSE /\ events # <<>>
         /\ events[Len(events)] = EndEvent("name", ret)

(* C5: once the name is found nothing more is pulled: the unread text      *)
(* starts right after the value (after its closing quote, for a quoted     *)
(* one), the markup event last delivered is the end of the name element,   *)
(* and text, undelivered events, received events and result stay as they   *)
(* are whatever follows.                                                   *)
C5_StopsAtTheValue ==
    /\ [](ret.some => CursorAtValueEnd)
    /\ [][ret.some => /\ text' = text
                      /\ stream' = stream
                      /\ events' = events
                      /\ ret' = ret]_vars

C5_Witness ==
    /\ pc = "done" /\ outcome = "ok" /\ fmt = "cmp"
    /\ FileVerdict.status = "found"
    /\ scope = <<CLRMAMEPRO>>
    /\ ParseStep(text).kind = "close"
    /\ ParseStep(ParseStep(text).rest).kind = "close"

Chars(t) == {t[i] : i \in 1..Len(t)}
CountChar(t, c) == Cardinality({i \in 1..Len(t) : t[i] = c})
QuoteFree == \A i \in 1..Len(pieces) : pieces[i] \notin {"qxy", "qempty", "qopen"}

(* C7, as claimed: in a file without quotes every ")" read makes one close *)
(* event and none is part of a record name, key or value.                  *)
C7_CloseNeverInToken ==
    (QuoteFree /\ pc \in {"gen", "stopped"})
        => /\ \A i \in 1..Len(events) :
                 ")" \notin (Chars(events[i].name) \cup Chars(events[i].value))
           /\ CountKind(events, "close") = CountChar(Consumed, ")")

Last(evs) == evs[Len(evs)]

(* the text after the key at the start of t and the whitespace after it,   *)
(* and whether an unquoted value starts there                              *)
AfterKey(key, t) == LStrip(SubSeq(t, Len(key) + 1, Len(t)))
UnquotedAfter(key, t) ==
    AfterKey(key, t) # <<>> /\ Head(AfterKey(key, t)) \notin {"(", "\""}

(* C7, amended: a ")" makes a close event exactly when it is the first     *)
(* character after whitespace at the start of an iteration, and then only  *)
(* that character is read; a record name or key is the whole run of        *)
(* non-whitespace characters there, and an unquoted value the whole run    *)
(* of non-whitespace characters after the key, any ")" in them or right    *)
(* after them included.                                                    *)
C7_CloseOnlyAtTokenStart ==
    [][pc = "gen" =>
          IF LStrip(text) # <<>> /\ Head(LStrip(text)) = ")"
          THEN /\ events' = Append(events, CloseEvent)
               /\ text' = Tail(LStrip(text))
          ELSE \/ events' = events
               \/ /\ Len(events') = Len(events) + 1
                  /\ Last(events').kind \in {"open", "value"}
                  /\ Last(events').name = NonSpaceRun(LStrip(text))
                  /\ UnquotedAfter(Last(events').name, LStrip(text))
                        => Last(events').value =
                              NonSpaceRun(AfterKey(Last(events').name, LStrip(text)))]_vars

C7_Witness ==
    /\ pc = "gen" /\ events # <<>>
    /\ Last(events) = ValueEvent(NAME, <<"x", ")">>)
    /\ CountKind(events, "close") = 0

(* the records open after the events evs, outermost first                  *)
RECURSIVE CmpPath(_)
CmpPath(evs) ==
    IF evs = <<>>
    THEN <<>>
    ELSE LET before == CmpPath(SubSeq(evs, 1, Len(evs) - 1))
         IN  CASE Last(evs).kind = "open" -> Append(before, Last(evs).name)
               [] Last(evs).kind = "close" -> SubSeq(before, 1, Len(before) - 1)
               [] OTHER -> before

Qualifies(evs, i) ==
    /\ evs[i].kind = "value"
    /\ evs[i].name = NAME
    /\ CmpPath(SubSeq(evs, 1, i - 1)) = <<CLRMAMEPRO>>

(* C8: read_header_name_cmp returns a value only for a value event with    *)
(* key name received while the scope is exactly ["clrmamepro"], and        *)
(* returns at the first such event; every other name pair is passed over.  *)
C8_ReturnsFirstQualifyingPair ==
    fmt = "cmp" =>
        /\ \A i \in 1..Len(events) :
              Qualifies(events, i)
                  => /\ i = Len(events)
                     /\ pc \in {"returned", "done"}
                     /\ ret = Some(events[i].value)
        /\ ret.some => (events # <<>> /\ Qualifies(events, Len(events)))
        /\ (pc = "done" /\ outcome = "ok") => ret.some

C8_Witness ==
    /\ fmt = "cmp" /\ pc = "done" /\ outcome = "ok"
    /\ \E i \in 1..(Len(events) - 1) :
          events[i].kind = "value" /\ events[i].name = NAME
    /\ ParseStep(text).kind = "value"
    /\ CmpIsTarget(ParseStep(text).event.name, scope)

(* C9: the generator ends on every text: an iteration stops cleanly (when  *)
(* and only when nothing but whitespace is left), fails, or yields exactly *)
(* one event having read at least one character, so that the unread text   *)
(* gets strictly shorter; it is never stuck before it has ended.           *)
C9_GeneratorTerminates ==
    /\ [](pc = "gen" => ParseStep(text).kind \in
                            {"stop", "IndexError", "close", "open", "value"})
    /\ [](pc = "stopped" => (text = <<>> /\ outcome = "pending"))
    /\ [](Len(events) + Len(text) <= Len(ReadText(pieces)))
    /\ [][pc = "gen" =>
            \/ /\ pc' = "stopped"
               /\ AllSpace(text)
               /\ events' = events
            \/ /\ pc' = "failed"
               /\ ~AllSpace(text)
               /\ events' = events
            \/ /\ pc' = "gen"
               /\ ~AllSpace(text)
               /\ Len(events') = Len(events) + 1
               /\ Len(text') < Len(text)
               /\ EndsWith(text, text')]_vars

C9_Witness ==
    /\ pc = "stopped"
    /\ Len(events) = 4
    /\ ReadText(pieces)[Len(ReadText(pieces))] = " "

====
